---- MODULE Spec2Model ----
(***************************************************************************)
(* Model of test_scripts/wait_on_action.py: the run locator                *)
(* (get_matching_workflow_runs), the run watcher (watch_workflow_run), the *)
(* outcome validator (validate_conclusion) and the orchestrator            *)
(* (wait_on_action).                                                       *)
(*                                                                         *)
(* Python strings that are searched (SHAs, titles, names, paths, tokens)   *)
(* are sequences of one-character strings, so that equality, substring and *)
(* suffix tests are computed and not assumed.  Conclusions, statuses and   *)
(* messages are only ever compared for equality or truthiness and are TLA+ *)
(* strings.                                                                *)
(*                                                                         *)
(* Time is counted in whole seconds from the call of wait_on_action.       *)
(* time.sleep(n) advances the clock by exactly n; a locator call takes     *)
(* between 0 and MaxApiDelay seconds (apiTime adds these up); the clock is *)
(* not read while watching, so watcher fetches do not advance it.          *)
(***************************************************************************)
EXTENDS Integers, Sequences, FiniteSets, TLC

VARIABLES
    \* ---- arguments of wait_on_action -----------------------------------
    commit_sha, workflow_name, test_id, expected_conclusion,
    timeout, poll_interval, success_message, error_message, verbose,
    \* ---- the remote CI service and the wall clock ----------------------
    workflows,          \* repo.get_workflows(), in the order the API lists them
    remote,             \* every workflow run of the repository, in API order
    now,                \* time.time(), 0 at the call of wait_on_action
    \* ---- locals of wait_on_action / watch_workflow_run -----------------
    pc, start_time, end_time, workflow_found, runs, run_id,
    status, conclusion, final_conclusion, result, logged,
    \* ---- observation (history) variables -------------------------------
    locatorCalls,       \* calls of get_matching_workflow_runs so far
    nonEmptyPolls,      \* how many of them returned a non-empty list
    watcherCalls,       \* calls of watch_workflow_run so far
    validatorCalls,     \* calls of validate_conclusion so far
    fetchedIds,         \* run ids passed to repo.get_workflow_run so far
    fetches,            \* number of repo.get_workflow_run calls
    sleeps,             \* number of time.sleep calls
    failedPolls,        \* locator calls that hit an API error or resolved no workflow
    apiTime             \* wall time spent inside locator API calls

vars == << commit_sha, workflow_name, test_id, expected_conclusion,
           timeout, poll_interval, success_message, error_message, verbose,
           workflows, remote, now,
           pc, start_time, end_time, workflow_found, runs, run_id,
           status, conclusion, final_conclusion, result, logged,
           locatorCalls, nonEmptyPolls, watcherCalls, validatorCalls,
           fetchedIds, fetches, sleeps, failedPolls, apiTime >>

(***************************************************************************)
(* Bounds of the model.                                                    *)
(***************************************************************************)
MaxTimeout  == 3    \* timeout ranges over -1..MaxTimeout
MaxPoll     == 2    \* poll_interval ranges over 1..MaxPoll
MaxRuns     == 2    \* runs the remote lists during one orchestrator invocation
MaxListed   == 2    \* runs the remote lists when the locator is called alone
MaxFetches  == 2    \* watcher fetches before the model stops the watch loop
MaxApiDelay == 1    \* wall time one locator call may take
MaxPolls    == 4    \* locator calls before the model stops the search loop

(***************************************************************************)
(* Python values.                                                          *)
(***************************************************************************)
None     == << "None" >>       \* an absent (None) searched string
NoneStr  == "<None>"           \* an absent (None) conclusion or message
Unset    == 0 - 1              \* a local integer that is not assigned yet

\* Python truthiness of an Optional[str] held as a character sequence.
Truthy(s) == s # None /\ s # << >>

\* Python `x or ""` on an Optional[str] held as a character sequence.
OrEmpty(s) == IF Truthy(s) THEN s ELSE << >>

\* Python `t in s` on strings.
IsSubstring(t, s) ==
    \E i \in 0 .. (Len(s) - Len(t)) : SubSeq(s, i + 1, i + Len(t)) = t

\* Python `s.endswith(t)`.
EndsWith(s, t) ==
    Len(t) <= Len(s) /\ SubSeq(s, Len(s) - Len(t) + 1, Len(s)) = t

(***************************************************************************)
(* The remote service: workflows and workflow runs.                        *)
(***************************************************************************)
WfByName == [id |-> 1, name |-> << "w" >>, path |-> << "d", "/", "x" >>]
WfByPath == [id |-> 2, name |-> << "n" >>, path |-> << "d", "/", "w" >>]
WfOther  == [id |-> 3, name |-> << "n" >>, path |-> << "d", "w" >>]

\* Listings repo.get_workflows() may return.
WorkflowListings ==
    { << WfByName, WfByPath >>, << WfOther, WfByPath, WfByName >>, << WfOther >> }
OrchListings == { << WfByName, WfByPath >>, << WfOther >> }

ShaOpts   == { << "a" >>, << "a", "b" >> }
TokenOpts == { None, << >>, << "t" >>, << "t", "u" >> }
\* (display_title, name) of a run
TextOpts  == { << None, None >>,
               << << "t" >>, None >>,
               << << >>, << "x", "t", "u" >> >> }
CreatedOpts == { 1, 2 }
WfIds       == { 1, 2 }

\* What a run can look like when it appears, apart from its id.
RunTemplates ==
    { [head_sha |-> s, display_title |-> tx[1], name |-> tx[2],
       created_at |-> c, workflow_id |-> w] :
         s \in ShaOpts, tx \in TextOpts, c \in CreatedOpts, w \in WfIds }

\* The runs considered while the orchestrator is exercised.
OrchTemplates ==
    { t \in RunTemplates :
        /\ t.workflow_id = 1
        /\ t.head_sha = << "a" >>
        /\ t.name = None
        /\ t.display_title = << "t" >> \/ t.created_at = 2 }

MkRun(t, id) ==
    [id |-> id, head_sha |-> t.head_sha, display_title |-> t.display_title,
     name |-> t.name, created_at |-> t.created_at, workflow_id |-> t.workflow_id]

(***************************************************************************)
(* get_matching_workflow_runs                                              *)
(***************************************************************************)
NoWorkflow == [id |-> 0 - 1, name |-> None, path |-> None]

\* The test of the workflow loop.
workflow_matches(workflow, wname) ==
    workflow.name = wname \/ EndsWith(workflow.path, << "/" >> \o wname)

\* Variant: the loop has no break, so the last matching workflow wins.
RECURSIVE target_workflow_last(_, _)
target_workflow_last(wfs, wname) ==
    IF wfs = << >> THEN NoWorkflow
    ELSE IF workflow_matches(wfs[Len(wfs)], wname) THEN wfs[Len(wfs)]
    ELSE target_workflow_last(SubSeq(wfs, 1, Len(wfs) - 1), wname)

\* for workflow in workflows: ... break
RECURSIVE target_workflow(_, _)
target_workflow(wfs, wname) ==
    IF wfs = << >> THEN NoWorkflow
    ELSE IF workflow_matches(Head(wfs), wname) THEN Head(wfs)
    ELSE target_workflow(Tail(wfs), wname)

\* target_workflow.get_runs()
all_runs_of(rem, workflow) ==
    SelectSeq(rem, LAMBDA r : r.workflow_id = workflow.id)

\* Variant: the SHA is compared by prefix (startswith).
sha_prefix_matches(run, sha) ==
    Len(sha) <= Len(run.head_sha) /\ SubSeq(run.head_sha, 1, Len(sha)) = sha

sha_matches(run, sha) == run.head_sha = sha

\* Variant: only the display title is searched for the token.
token_matches_title_only(run, token) ==
    IsSubstring(token, OrEmpty(run.display_title))

\* if test_id in display_title or test_id in run_name:
token_matches(run, token) ==
    \/ IsSubstring(token, OrEmpty(run.display_title))
    \/ IsSubstring(token, OrEmpty(run.name))

\* Variant: when no run carries the token, the SHA-only matches are kept.
matching_runs_with_fallback(all_runs, sha, token) ==
    LET by_sha   == SelectSeq(all_runs, LAMBDA r : sha_matches(r, sha))
        by_token == SelectSeq(by_sha, LAMBDA r : token_matches(r, token))
    IN  IF Truthy(token) /\ by_token # << >> THEN by_token ELSE by_sha

\* The filter by commit SHA and optionally by test_id.
matching_runs(all_runs, sha, token) ==
    IF Truthy(token)
    THEN SelectSeq(all_runs, LAMBDA r : sha_matches(r, sha) /\ token_matches(r, token))
    ELSE SelectSeq(all_runs, LAMBDA r : sha_matches(r, sha))

\* Where list.sort(key=created_at, reverse=True) puts an element that comes
\* after the elements of s in the input: behind every element that is not
\* older (the sort is stable).
RECURSIVE insert_newest_first(_, _)
insert_newest_first(r, s) ==
    IF s = << >> THEN << r >>
    ELSE IF Head(s).created_at >= r.created_at
         THEN << Head(s) >> \o insert_newest_first(r, Tail(s))
         ELSE << r >> \o s

\* Variant: the sort without reverse=True (oldest first).
RECURSIVE insert_oldest_first(_, _)
insert_oldest_first(r, s) ==
    IF s = << >> THEN << r >>
    ELSE IF Head(s).created_at <= r.created_at
         THEN << Head(s) >> \o insert_oldest_first(r, Tail(s))
         ELSE << r >> \o s

RECURSIVE sort_oldest_first(_)
sort_oldest_first(s) ==
    IF s = << >> THEN << >>
    ELSE insert_oldest_first(s[Len(s)], sort_oldest_first(SubSeq(s, 1, Len(s) - 1)))

\* matching_runs.sort(key=lambda run: run.created_at, reverse=True)
RECURSIVE sort_newest_first(_)
sort_newest_first(s) ==
    IF s = << >> THEN << >>
    ELSE insert_newest_first(s[Len(s)], sort_newest_first(SubSeq(s, 1, Len(s) - 1)))

\* api_error: the client raised (GithubException or any other exception).
get_matching_workflow_runs(wfs, rem, wname, sha, token, api_error) ==
    IF api_error THEN << >>
    ELSE LET tw == target_workflow(wfs, wname) IN
         IF tw = NoWorkflow THEN << >>
         ELSE sort_newest_first(matching_runs(all_runs_of(rem, tw), sha, token))

\* The call ends in one of its error paths: an except clause, or
\* "Workflow ... not found".
poll_fails(wfs, wname, api_error) ==
    api_error \/ target_workflow(wfs, wname) = NoWorkflow

(***************************************************************************)
(* validate_conclusion                                                     *)
(***************************************************************************)
\* Python truthiness of an Optional[str] held as a TLA+ string.
TruthyStr(s) == s # NoneStr /\ s # ""

\* Variant: the exit codes are exchanged.
validate_conclusion_inverted(actual, expected, smsg, emsg) ==
    IF actual = expected
    THEN [code |-> 1, message |-> << smsg >>]
    ELSE [code |-> 0, message |-> << emsg >>]

\* str.lower() on the strings of the model.
Lower(str) == IF str = "Success" THEN "success" ELSE str

\* Variant: the conclusions are compared ignoring case.
validate_conclusion_ignoring_case(actual, expected, smsg, emsg) ==
    IF Lower(actual) = Lower(expected)
    THEN [code |-> 0, message |-> << smsg >>]
    ELSE [code |-> 1, message |-> << emsg >>]

\* The exit code and the line that is logged.
validate_conclusion(actual, expected, smsg, emsg) ==
    LET success == IF ~TruthyStr(smsg)
                   THEN << "Test passed: Workflow completed with expected conclusion: ",
                           expected >>
                   ELSE << smsg >>
        error   == IF ~TruthyStr(emsg)
                   THEN << "Test failed: Workflow should have concluded with ",
                           expected >>
                   ELSE << emsg >>
    IN  IF actual = expected
        THEN [code |-> 0, message |-> success]
        ELSE [code |-> 1, message |-> error \o << " (got ", actual, ")" >>]

(***************************************************************************)
(* watch_workflow_run                                                      *)
(***************************************************************************)
StatusOpts     == { "queued", "in_progress", "completed" }
ConclusionOpts == { NoneStr, "", "success", "failure" }

\* What repo.get_workflow_run may answer: the conclusion is populated only
\* once the status is "completed".
FetchAnswers ==
    { a \in [status : StatusOpts, conclusion : ConclusionOpts] :
        a.status # "completed" => a.conclusion = NoneStr }

\* Variant: the loop ends as soon as the run has left the queue.
watch_done_not_queued(st) == st # "queued"

\* if status == "completed":
watch_done(st) == st = "completed"

\* conclusion or "unknown"
conclusion_or_unknown(c) == IF TruthyStr(c) THEN c ELSE "unknown"

\* Variant: every fetch looks the newest matching run up again.
watch_target_newest ==
    LET latest == get_matching_workflow_runs(workflows, remote, workflow_name,
                                             commit_sha, test_id, FALSE)
    IN  IF latest = << >> THEN run_id ELSE latest[1].id

\* The identifier watch_workflow_run passes to repo.get_workflow_run.
watch_target == run_id

\* run = repo.get_workflow_run(run_id); status = ...; conclusion = ...
WatchFetch ==
    /\ pc = "watch"
    /\ fetches < MaxFetches
    /\ \E a \in FetchAnswers :
          /\ status' = a.status
          /\ conclusion' = a.conclusion
    /\ fetchedIds' = fetchedIds \cup { watch_target }
    /\ fetches' = fetches + 1
    /\ pc' = "fetched"
    /\ UNCHANGED << verbose, failedPolls, commit_sha, workflow_name, test_id, expected_conclusion,
                    timeout, poll_interval, success_message, error_message,
                    workflows, remote, now, start_time, end_time,
                    workflow_found, runs, run_id, final_conclusion, result,
                    logged, locatorCalls, nonEmptyPolls, watcherCalls,
                    validatorCalls, sleeps, apiTime >>

\* Variant: a failing fetch is caught and reported as an "unknown"
\* conclusion.
WatchFetchErrorAbsorbed ==
    /\ pc = "watch"
    /\ final_conclusion' = "unknown"
    /\ pc' = "validate"
    /\ UNCHANGED << verbose, failedPolls, commit_sha, workflow_name, test_id, expected_conclusion,
                    timeout, poll_interval, success_message, error_message,
                    workflows, remote, now, start_time, end_time,
                    workflow_found, runs, run_id, status, conclusion,
                    result, logged, locatorCalls,
                    nonEmptyPolls, watcherCalls, validatorCalls, fetchedIds,
                    fetches, sleeps, apiTime >>

\* The client, the repository lookup or the fetch raises: nothing catches it
\* in watch_workflow_run or in wait_on_action.
WatchFetchError ==
    /\ pc = "watch"
    /\ pc' = "raised"
    /\ UNCHANGED << verbose, failedPolls, commit_sha, workflow_name, test_id, expected_conclusion,
                    timeout, poll_interval, success_message, error_message,
                    workflows, remote, now, start_time, end_time,
                    workflow_found, runs, run_id, status, conclusion,
                    final_conclusion, result, logged, locatorCalls,
                    nonEmptyPolls, watcherCalls, validatorCalls, fetchedIds,
                    fetches, sleeps, apiTime >>

\* Variant: the watch loop sleeps once more before it returns.
WatchReturnAfterSleep ==
    /\ pc = "fetched"
    /\ watch_done(status)
    /\ now' = now + poll_interval
    /\ sleeps' = sleeps + 1
    /\ final_conclusion' = conclusion_or_unknown(conclusion)
    /\ pc' = "validate"
    /\ UNCHANGED << verbose, failedPolls, commit_sha, workflow_name, test_id, expected_conclusion,
                    timeout, poll_interval, success_message, error_message,
                    workflows, remote, start_time, end_time,
                    workflow_found, runs, run_id, status, conclusion, result,
                    logged, locatorCalls, nonEmptyPolls, watcherCalls,
                    validatorCalls, fetchedIds, fetches, apiTime >>

\* return conclusion or "unknown"
WatchReturn ==
    /\ pc = "fetched"
    /\ watch_done(status)
    /\ final_conclusion' = conclusion_or_unknown(conclusion)
    /\ pc' = "validate"
    /\ UNCHANGED << verbose, failedPolls, commit_sha, workflow_name, test_id, expected_conclusion,
                    timeout, poll_interval, success_message, error_message,
                    workflows, remote, now, start_time, end_time,
                    workflow_found, runs, run_id, status, conclusion, result,
                    logged, locatorCalls, nonEmptyPolls, watcherCalls,
                    validatorCalls, fetchedIds, fetches, sleeps, apiTime >>

\* Variant: the watch loop gives up with 2 once the search deadline passed.
WatchSleepBounded ==
    /\ pc = "fetched"
    /\ ~watch_done(status)
    /\ now' = now + poll_interval
    /\ sleeps' = sleeps + 1
    /\ IF now' >= end_time
       THEN pc' = "done" /\ result' = 2
       ELSE pc' = "watch" /\ result' = result
    /\ UNCHANGED << verbose, failedPolls, commit_sha, workflow_name, test_id, expected_conclusion,
                    timeout, poll_interval, success_message, error_message,
                    workflows, remote, start_time, end_time, workflow_found,
                    runs, run_id, status, conclusion, final_conclusion,
                    logged, locatorCalls, nonEmptyPolls, watcherCalls,
                    validatorCalls, fetchedIds, fetches, apiTime >>

\* time.sleep(poll_interval) of the watch loop
WatchSleep ==
    /\ pc = "fetched"
    /\ ~watch_done(status)
    /\ now' = now + poll_interval
    /\ sleeps' = sleeps + 1
    /\ pc' = "watch"
    /\ UNCHANGED << verbose, failedPolls, commit_sha, workflow_name, test_id, expected_conclusion,
                    timeout, poll_interval, success_message, error_message,
                    workflows, remote, start_time, end_time, workflow_found,
                    runs, run_id, status, conclusion, final_conclusion, result,
                    logged, locatorCalls, nonEmptyPolls, watcherCalls,
                    validatorCalls, fetchedIds, fetches, apiTime >>

(***************************************************************************)
(* wait_on_action                                                          *)
(***************************************************************************)
\* Variant: the loop test does not look at the clock.
loop_condition_no_deadline(t, deadline, found) == ~found

\* Variant: the deadline itself still counts as inside the window.
loop_condition_inclusive(t, deadline, found) == t <= deadline /\ ~found

\* while time.time() < end_time and not workflow_found:
loop_condition(t, deadline, found) == t < deadline /\ ~found

\* Variant: the last element of the list is taken.
selected_last(rs) == rs[Len(rs)]

\* run = runs[0]
selected_run(rs) == rs[1]

\* Variant: the deadline is measured from the call, before the initial
\* sleep.
InitialSleepInsideTimeout ==
    /\ pc = "start"
    /\ now' = now + poll_interval
    /\ sleeps' = sleeps + 1
    /\ start_time' = now
    /\ end_time' = now + timeout
    /\ workflow_found' = FALSE
    /\ pc' = "loop"
    /\ UNCHANGED << verbose, failedPolls, commit_sha, workflow_name, test_id, expected_conclusion,
                    timeout, poll_interval, success_message, error_message,
                    workflows, remote, runs, run_id, status, conclusion,
                    final_conclusion, result, logged, locatorCalls,
                    nonEmptyPolls, watcherCalls, validatorCalls, fetchedIds,
                    fetches, apiTime >>

\* time.sleep(poll_interval); start_time = time.time();
\* end_time = start_time + timeout; workflow_found = False
InitialSleep ==
    /\ pc = "start"
    /\ now' = now + poll_interval
    /\ sleeps' = sleeps + 1
    /\ start_time' = now'
    /\ end_time' = now' + timeout
    /\ workflow_found' = FALSE
    /\ pc' = "loop"
    /\ UNCHANGED << verbose, failedPolls, commit_sha, workflow_name, test_id, expected_conclusion,
                    timeout, poll_interval, success_message, error_message,
                    workflows, remote, runs, run_id, status, conclusion,
                    final_conclusion, result, logged, locatorCalls,
                    nonEmptyPolls, watcherCalls, validatorCalls, fetchedIds,
                    fetches, apiTime >>

\* Variant: an error inside get_matching_workflow_runs is not caught there.
SearchPollPropagates ==
    /\ pc = "loop"
    /\ loop_condition(now, end_time, workflow_found)
    /\ locatorCalls < MaxPolls
    /\ \E d \in 0 .. MaxApiDelay, api_error \in BOOLEAN :
          /\ runs' = get_matching_workflow_runs(workflows, remote, workflow_name,
                                                commit_sha, test_id, api_error)
          /\ failedPolls' = IF poll_fails(workflows, workflow_name, api_error)
                            THEN failedPolls + 1 ELSE failedPolls
          /\ now' = now + d
          /\ apiTime' = apiTime + d
    /\ locatorCalls' = locatorCalls + 1
    /\ nonEmptyPolls' = IF runs' # << >> THEN nonEmptyPolls + 1 ELSE nonEmptyPolls
    /\ pc' = IF failedPolls' # failedPolls THEN "raised" ELSE "polled"
    /\ UNCHANGED << verbose, commit_sha, workflow_name, test_id, expected_conclusion,
                    timeout, poll_interval, success_message, error_message,
                    workflows, remote, start_time, end_time, workflow_found,
                    run_id, status, conclusion, final_conclusion, result,
                    logged, watcherCalls, validatorCalls, fetchedIds, fetches,
                    sleeps >>

\* The loop test holds and get_matching_workflow_runs is called; the call
\* takes d units of wall time and may fail inside the client (api_error).
SearchPoll ==
    /\ pc = "loop"
    /\ loop_condition(now, end_time, workflow_found)
    /\ locatorCalls < MaxPolls
    /\ \E d \in 0 .. MaxApiDelay, api_error \in BOOLEAN :
          /\ runs' = get_matching_workflow_runs(workflows, remote, workflow_name,
                                                commit_sha, test_id, api_error)
          /\ failedPolls' = IF poll_fails(workflows, workflow_name, api_error)
                            THEN failedPolls + 1 ELSE failedPolls
          /\ now' = now + d
          /\ apiTime' = apiTime + d
    /\ locatorCalls' = locatorCalls + 1
    /\ nonEmptyPolls' = IF runs' # << >> THEN nonEmptyPolls + 1 ELSE nonEmptyPolls
    /\ pc' = "polled"
    /\ UNCHANGED << verbose, commit_sha, workflow_name, test_id, expected_conclusion,
                    timeout, poll_interval, success_message, error_message,
                    workflows, remote, start_time, end_time, workflow_found,
                    run_id, status, conclusion, final_conclusion, result,
                    logged, watcherCalls, validatorCalls, fetchedIds, fetches,
                    sleeps >>

\* Variant: a result that comes back after the deadline is not taken.
MatchedInTime ==
    /\ pc = "polled"
    /\ runs # << >>
    /\ now < end_time
    /\ workflow_found' = TRUE
    /\ run_id' = selected_run(runs).id
    /\ watcherCalls' = watcherCalls + 1
    /\ pc' = "watch"
    /\ UNCHANGED << verbose, failedPolls, commit_sha, workflow_name, test_id, expected_conclusion,
                    timeout, poll_interval, success_message, error_message,
                    workflows, remote, now, start_time, end_time, runs,
                    status, conclusion, final_conclusion, result, logged,
                    locatorCalls, nonEmptyPolls, validatorCalls, fetchedIds,
                    fetches, sleeps, apiTime >>

\* if runs: workflow_found = True; run = runs[0]; run_id = run.id; ...
\* final_conclusion = watch_workflow_run(..., run_id, poll_interval)
Matched ==
    /\ pc = "polled"
    /\ runs # << >>
    /\ workflow_found' = TRUE
    /\ run_id' = selected_run(runs).id
    /\ watcherCalls' = watcherCalls + 1
    /\ pc' = "watch"
    /\ UNCHANGED << verbose, failedPolls, commit_sha, workflow_name, test_id, expected_conclusion,
                    timeout, poll_interval, success_message, error_message,
                    workflows, remote, now, start_time, end_time, runs,
                    status, conclusion, final_conclusion, result, logged,
                    locatorCalls, nonEmptyPolls, validatorCalls, fetchedIds,
                    fetches, sleeps, apiTime >>

\* else: if verbose: logging.debug(f"... (attempt
\*       {int(time.time() - start_time) // poll_interval + 1})")
\*       else: print(".")
\*       time.sleep(poll_interval)
\* With v (verbose) set the attempt number is computed, and the integer
\* division raises ZeroDivisionError when poll_interval is 0: nothing
\* catches it and the invocation ends there.
NoMatchV(v) ==
    /\ pc = "polled"
    /\ runs = << >>
    /\ IF v /\ poll_interval = 0
       THEN /\ pc' = "crashed"
            /\ UNCHANGED << now, sleeps >>
       ELSE /\ now' = now + poll_interval
            /\ sleeps' = sleeps + 1
            /\ pc' = "loop"
    /\ UNCHANGED << verbose, failedPolls, commit_sha, workflow_name, test_id,
                    expected_conclusion, timeout, poll_interval,
                    success_message, error_message, workflows, remote,
                    start_time, end_time, workflow_found, runs, run_id, status,
                    conclusion, final_conclusion, result, logged, locatorCalls,
                    nonEmptyPolls, watcherCalls, validatorCalls, fetchedIds,
                    fetches, apiTime >>

NoMatch == NoMatchV(verbose)

\* Variant: after the timeout the whole procedure is started over.
GiveUpRetry ==
    /\ pc = "loop"
    /\ ~loop_condition(now, end_time, workflow_found)
    /\ result' = 2
    /\ pc' = "start"
    /\ UNCHANGED << verbose, failedPolls, commit_sha, workflow_name, test_id, expected_conclusion,
                    timeout, poll_interval, success_message, error_message,
                    workflows, remote, now, start_time, end_time,
                    workflow_found, runs, run_id, status, conclusion,
                    final_conclusion, logged, locatorCalls, nonEmptyPolls,
                    watcherCalls, validatorCalls, fetchedIds, fetches, sleeps,
                    apiTime >>

\* The loop test fails: logging.error(error_msg); return 2
GiveUp ==
    /\ pc = "loop"
    /\ ~loop_condition(now, end_time, workflow_found)
    /\ result' = 2
    /\ pc' = "done"
    /\ UNCHANGED << verbose, failedPolls, commit_sha, workflow_name, test_id, expected_conclusion,
                    timeout, poll_interval, success_message, error_message,
                    workflows, remote, now, start_time, end_time,
                    workflow_found, runs, run_id, status, conclusion,
                    final_conclusion, logged, locatorCalls, nonEmptyPolls,
                    watcherCalls, validatorCalls, fetchedIds, fetches, sleeps,
                    apiTime >>

\* Variant: the result of validate_conclusion is not returned and the loop
\* goes on.
ValidateFallThrough ==
    /\ pc = "validate"
    /\ logged' = validate_conclusion(final_conclusion, expected_conclusion,
                                     success_message, error_message).message
    /\ validatorCalls' = validatorCalls + 1
    /\ pc' = "loop"
    /\ UNCHANGED << verbose, failedPolls, commit_sha, workflow_name, test_id, expected_conclusion,
                    timeout, poll_interval, success_message, error_message,
                    workflows, remote, now, start_time, end_time,
                    workflow_found, runs, run_id, status, conclusion,
                    final_conclusion, result, locatorCalls, nonEmptyPolls,
                    watcherCalls, fetchedIds, fetches, sleeps, apiTime >>

\* return validate_conclusion(final_conclusion, expected_conclusion, ...)
Validate ==
    /\ pc = "validate"
    /\ LET v == validate_conclusion(final_conclusion, expected_conclusion,
                                    success_message, error_message)
       IN  /\ result' = v.code
           /\ logged' = v.message
    /\ validatorCalls' = validatorCalls + 1
    /\ pc' = "done"
    /\ UNCHANGED << verbose, failedPolls, commit_sha, workflow_name, test_id, expected_conclusion,
                    timeout, poll_interval, success_message, error_message,
                    workflows, remote, now, start_time, end_time,
                    workflow_found, runs, run_id, status, conclusion,
                    final_conclusion, locatorCalls, nonEmptyPolls,
                    watcherCalls, fetchedIds, fetches, sleeps,
                    apiTime >>

(***************************************************************************)
(* The environment: a new run becomes visible on the remote.  The program  *)
(* sees the remote only through its API calls, so runs appear right before *)
(* a call (while searching or while watching).                             *)
(***************************************************************************)
RunAppears ==
    /\ pc \in { "loop", "watch" }
    /\ Len(remote) < MaxRuns
    /\ \E t \in OrchTemplates : remote' = Append(remote, MkRun(t, Len(remote) + 1))
    /\ UNCHANGED << verbose, failedPolls, commit_sha, workflow_name, test_id, expected_conclusion,
                    timeout, poll_interval, success_message, error_message,
                    workflows, now, pc, start_time, end_time, workflow_found,
                    runs, run_id, status, conclusion, final_conclusion, result,
                    logged, locatorCalls, nonEmptyPolls, watcherCalls,
                    validatorCalls, fetchedIds, fetches, sleeps, apiTime >>

\* The workflow is registered on the remote only after the call (its
\* registration lags): from then on the workflow name resolves.
WorkflowRegistered ==
    /\ pc = "loop"
    /\ target_workflow(workflows, workflow_name) = NoWorkflow
    /\ workflows' = Append(workflows, WfByName)
    /\ UNCHANGED << verbose, failedPolls, commit_sha, workflow_name, test_id,
                    expected_conclusion, timeout, poll_interval,
                    success_message, error_message, remote, now, pc,
                    start_time, end_time, workflow_found, runs, run_id, status,
                    conclusion, final_conclusion, result, logged, locatorCalls,
                    nonEmptyPolls, watcherCalls, validatorCalls, fetchedIds,
                    fetches, sleeps, apiTime >>

(***************************************************************************)
(* One invocation of wait_on_action.                                       *)
(***************************************************************************)
MinTimeout == 0 - 1     \* a timeout that has run out at the call

MsgOpts == { NoneStr, "custom" }
\* (success_message, error_message) while the orchestrator is exercised:
\* one defaulted and one supplied (validate_conclusion is exercised with
\* every combination in ValidateSpec).
OrchMessages == { << NoneStr, "custom" >> }

Locals0 ==
    /\ start_time = Unset /\ end_time = Unset /\ workflow_found = FALSE
    /\ runs = << >> /\ run_id = Unset
    /\ status = NoneStr /\ conclusion = NoneStr /\ final_conclusion = NoneStr
    /\ result = Unset /\ logged = << >>
    /\ locatorCalls = 0 /\ nonEmptyPolls = 0 /\ watcherCalls = 0
    /\ validatorCalls = 0 /\ fetchedIds = { } /\ fetches = 0 /\ sleeps = 0
    /\ failedPolls = 0 /\ apiTime = 0

Init ==
    /\ commit_sha = << "a" >>
    /\ workflow_name = << "w" >>
    /\ test_id \in { None, << "t" >> }
    /\ expected_conclusion \in { "success", "failure" }
    /\ timeout \in MinTimeout .. MaxTimeout
    /\ poll_interval \in 1 .. MaxPoll
    /\ \E m \in OrchMessages : success_message = m[1] /\ error_message = m[2]
    /\ verbose \in BOOLEAN
    /\ workflows \in OrchListings
    /\ remote = << >>
    /\ now = 0
    /\ pc = "start"
    /\ Locals0

Next ==
    \/ InitialSleep
    \/ SearchPoll
    \/ Matched
    \/ NoMatch
    \/ GiveUp
    \/ WatchFetch
    \/ WatchFetchError
    \/ WatchReturn
    \/ WatchSleep
    \/ Validate
    \/ RunAppears
    \/ WorkflowRegistered

Spec == Init /\ [][Next]_vars

(***************************************************************************)
(* The same invocation over every poll_interval the command line accepts   *)
(* without failing in time.sleep, 0 included (--poll-interval is any int). *)
(***************************************************************************)
InitVerbose ==
    /\ commit_sha = << "a" >>
    /\ workflow_name = << "w" >>
    /\ test_id \in { None, << "t" >> }
    /\ expected_conclusion = "success"
    /\ timeout \in 0 .. MaxTimeout
    /\ poll_interval \in 0 .. MaxPoll
    /\ \E m \in OrchMessages : success_message = m[1] /\ error_message = m[2]
    /\ verbose \in BOOLEAN
    /\ workflows \in OrchListings
    /\ remote = << >>
    /\ now = 0
    /\ pc = "start"
    /\ Locals0

VerboseSpec == InitVerbose /\ [][Next]_vars

\* A step of wait_on_action (not of its environment) when the verbose
\* argument is v.
ProgramStep(v) ==
    \/ InitialSleep
    \/ SearchPoll
    \/ Matched
    \/ NoMatchV(v)
    \/ GiveUp
    \/ WatchFetch
    \/ WatchFetchError
    \/ WatchReturn
    \/ WatchSleep
    \/ Validate

(***************************************************************************)
(* One invocation under the assumptions of the termination argument: the   *)
(* clock advances and every call and sleep returns (weak fairness of the   *)
(* program's own steps; the environment owes nothing), poll_interval is    *)
(* positive, and the matched run completes in finite time: it is seen      *)
(* "completed" by the MaxFetches-th fetch at the latest.  A fetch may      *)
(* still raise.                                                            *)
(***************************************************************************)
InitLive ==
    /\ commit_sha = << "a" >>
    /\ workflow_name = << "w" >>
    /\ test_id \in { None, << "t" >> }
    /\ expected_conclusion = "success"
    /\ timeout \in MinTimeout .. MaxTimeout
    /\ poll_interval \in 1 .. MaxPoll
    /\ \E m \in OrchMessages : success_message = m[1] /\ error_message = m[2]
    /\ verbose \in BOOLEAN
    /\ workflows \in OrchListings
    /\ remote = << >>
    /\ now = 0
    /\ pc = "start"
    /\ Locals0

\* repo.get_workflow_run on a run that completes in finite time.
WatchFetchCompleting ==
    /\ WatchFetch
    /\ fetches' = MaxFetches => watch_done(status')

LiveProgramStep ==
    \/ InitialSleep
    \/ SearchPoll
    \/ Matched
    \/ NoMatch
    \/ GiveUp
    \/ WatchFetchCompleting
    \/ WatchFetchError
    \/ WatchReturn
    \/ WatchSleep
    \/ Validate

LiveNext ==
    \/ LiveProgramStep
    \/ RunAppears
    \/ WorkflowRegistered

LiveSpec == InitLive /\ [][LiveNext]_vars /\ WF_vars(LiveProgramStep)

(***************************************************************************)
(* get_matching_workflow_runs called on its own: the arguments and the     *)
(* remote's listing are drawn from the option sets above.                  *)
(***************************************************************************)
InitLocator ==
    /\ commit_sha \in ShaOpts
    /\ workflow_name = << "w" >>
    /\ test_id \in TokenOpts
    /\ expected_conclusion = "success"
    /\ timeout = 0
    /\ poll_interval = 1
    /\ success_message = NoneStr
    /\ error_message = NoneStr
    /\ verbose = FALSE
    /\ workflows \in WorkflowListings
    /\ remote = << >>
    /\ now = 0
    /\ pc = "locator"
    /\ Locals0

\* A run is listed by the remote before the call.
RunListed ==
    /\ pc = "locator"
    /\ Len(remote) < MaxListed
    /\ \E t \in RunTemplates : remote' = Append(remote, MkRun(t, Len(remote) + 1))
    /\ UNCHANGED << verbose, failedPolls, commit_sha, workflow_name, test_id, expected_conclusion,
                    timeout, poll_interval, success_message, error_message,
                    workflows, now, pc, start_time, end_time, workflow_found,
                    runs, run_id, status, conclusion, final_conclusion, result,
                    logged, locatorCalls, nonEmptyPolls, watcherCalls,
                    validatorCalls, fetchedIds, fetches, sleeps, apiTime >>

\* runs = get_matching_workflow_runs(github_token, repo_path, workflow_name,
\*                                   commit_sha, test_id)
LocatorCall ==
    /\ pc = "locator"
    /\ \E api_error \in BOOLEAN :
          /\ runs' = get_matching_workflow_runs(workflows, remote, workflow_name,
                                                commit_sha, test_id, api_error)
          /\ failedPolls' = IF poll_fails(workflows, workflow_name, api_error)
                            THEN failedPolls + 1 ELSE failedPolls
    /\ locatorCalls' = locatorCalls + 1
    /\ nonEmptyPolls' = IF runs' # << >> THEN nonEmptyPolls + 1 ELSE nonEmptyPolls
    /\ pc' = "located"
    /\ UNCHANGED << verbose, commit_sha, workflow_name, test_id, expected_conclusion,
                    timeout, poll_interval, success_message, error_message,
                    workflows, remote, now, start_time, end_time,
                    workflow_found, run_id, status, conclusion,
                    final_conclusion, result, logged, watcherCalls,
                    validatorCalls, fetchedIds, fetches, sleeps, apiTime >>

NextLocator == RunListed \/ LocatorCall

LocatorSpec == InitLocator /\ [][NextLocator]_vars

(***************************************************************************)
(* validate_conclusion called on its own.                                  *)
(***************************************************************************)
ValidateStrings == { "", "success", "Success", "failure", "skipped", "unknown" }

InitValidate ==
    /\ commit_sha = << "a" >>
    /\ workflow_name = << "w" >>
    /\ test_id = None
    /\ expected_conclusion \in ValidateStrings
    /\ timeout = 0
    /\ poll_interval = 1
    /\ success_message \in MsgOpts \cup { "" }
    /\ error_message \in MsgOpts \cup { "" }
    /\ verbose = FALSE
    /\ workflows = << >>
    /\ remote = << >>
    /\ now = 0
    /\ pc = "validate"
    /\ start_time = Unset /\ end_time = Unset /\ workflow_found = FALSE
    /\ runs = << >> /\ run_id = Unset
    /\ status = NoneStr /\ conclusion = NoneStr
    /\ final_conclusion \in ValidateStrings
    /\ result = Unset /\ logged = << >>
    /\ locatorCalls = 0 /\ nonEmptyPolls = 0 /\ watcherCalls = 0
    /\ validatorCalls = 0 /\ fetchedIds = { } /\ fetches = 0 /\ sleeps = 0
    /\ failedPolls = 0 /\ apiTime = 0

ValidateSpec == InitValidate /\ [][Validate]_vars

(***************************************************************************)
(* Properties.                                                             *)
(***************************************************************************)
\* wait_on_action has returned (not raised).
Returned == pc = "done"

\* watch_workflow_run has returned its conclusion to wait_on_action.
WatcherReturned == pc \in { "validate", "done" } /\ watcherCalls > 0

\* C1: whenever wait_on_action returns after a run was matched, it returns 0
\* exactly when the conclusion the watcher obtained equals
\* expected_conclusion and 1 exactly when it differs; no other value is
\* returned on this path.
C1_ExitCodeFollowsConclusion ==
    (Returned /\ workflow_found) =>
        /\ result \in { 0, 1 }
        /\ (result = 0) <=> (final_conclusion = expected_conclusion)
        /\ (result = 1) <=> (final_conclusion # expected_conclusion)

C1_Witness ==
    /\ Returned /\ workflow_found
    /\ result = 1
    /\ final_conclusion = "unknown"
    /\ expected_conclusion = "success"

\* C2: wait_on_action returns 2 exactly when every locator poll of the
\* invocation returned an empty list; once a poll has returned a non-empty
\* list 2 is never returned, and when 2 is returned neither the watcher nor
\* the validator was invoked.
C2_TwoIffEveryPollEmpty ==
    /\ Returned => ((result = 2) <=> (nonEmptyPolls = 0))
    /\ (nonEmptyPolls > 0) => (result # 2)
    /\ (result = 2) => (watcherCalls = 0 /\ validatorCalls = 0)

C2_Witness ==
    /\ Returned /\ result = 2
    /\ locatorCalls >= 2
    /\ remote # << >>

\* The token occurs literally in the display title or in the name of run r
\* (an absent title or name counts as the empty string).
CarriesToken(r, token) ==
    \/ /\ r.display_title # None
       /\ \E i \in 1 .. Len(r.display_title), j \in 1 .. Len(r.display_title) :
             SubSeq(r.display_title, i, j) = token
    \/ /\ r.name # None
       /\ \E i \in 1 .. Len(r.name), j \in 1 .. Len(r.name) :
             SubSeq(r.name, i, j) = token

\* get_matching_workflow_runs has returned in LocatorSpec.
Located == pc = "located"

\* C3: every run that get_matching_workflow_runs returns has head_sha
\* exactly equal to commit_sha (no prefix or substring match) and, when a
\* non-empty token was supplied, carries the token as a literal substring
\* of its display title or its name.
C3_OnlyExactShaAndToken ==
    Located =>
        \A i \in 1 .. Len(runs) :
            /\ runs[i].head_sha = commit_sha
            /\ Truthy(test_id) => CarriesToken(runs[i], test_id)

\* A run is returned while another run of the resolved workflow, which
\* carries the token and whose SHA only starts with commit_sha, is left out.
C3_Witness ==
    /\ Located /\ runs # << >> /\ Truthy(test_id)
    /\ \E j \in 1 .. Len(remote) :
          /\ remote[j].workflow_id = runs[1].workflow_id
          /\ remote[j].head_sha # commit_sha
          /\ SubSeq(remote[j].head_sha, 1, Len(commit_sha)) = commit_sha
          /\ CarriesToken(remote[j], test_id)

\* A token was supplied and no run of the remote with the target SHA
\* carries it.
NoRunCarriesToken ==
    /\ Truthy(test_id)
    /\ \A j \in 1 .. Len(remote) :
          remote[j].head_sha = commit_sha => ~CarriesToken(remote[j], test_id)

\* C4: if a token is supplied and no run with the target SHA carries it,
\* the locator returns an empty list even when runs match the SHA alone;
\* the orchestrator has matched nothing on that poll and goes on searching.
C4_NoFallbackToShaOnly ==
    (pc = "polled" /\ NoRunCarriesToken) =>
        /\ runs = << >>
        /\ ~workflow_found
        /\ watcherCalls = 0
        /\ ENABLED NoMatch
        /\ ~ENABLED Matched

\* The poll came back empty although the resolved workflow has a run with
\* the target SHA.
C4_Witness ==
    /\ pc = "polled" /\ NoRunCarriesToken
    /\ target_workflow(workflows, workflow_name) # NoWorkflow
    /\ \E j \in 1 .. Len(remote) :
          /\ remote[j].head_sha = commit_sha
          /\ remote[j].workflow_id = target_workflow(workflows, workflow_name).id

\* C5 as stated: the returned list is strictly descending by created_at,
\* also when runs share a creation timestamp.
C5_StrictlyDescending ==
    Located =>
        \A i \in 1 .. (Len(runs) - 1) : runs[i].created_at > runs[i + 1].created_at

\* C5, amended: the returned list is descending by created_at; adjacent
\* elements may share a creation timestamp.
C5_Descending ==
    Located =>
        \A i \in 1 .. (Len(runs) - 1) : runs[i].created_at >= runs[i + 1].created_at

\* The locator had to reorder: the remote listed the older run first.
C5_Witness ==
    /\ Located /\ Len(runs) >= 2
    /\ runs[1].created_at > runs[2].created_at
    /\ runs[1].id > runs[2].id

\* C6: watch_workflow_run never returns while the most recently fetched
\* status is not "completed"; what it returns is the conclusion read in the
\* fetch that showed "completed", or "unknown" when that conclusion is
\* absent or empty.
C6_WatcherReturnsOnlyCompleted ==
    WatcherReturned =>
        /\ status = "completed"
        /\ fetches >= 1
        /\ final_conclusion =
              (IF conclusion = NoneStr \/ conclusion = "" THEN "unknown" ELSE conclusion)

\* The watcher returned "unknown" for a completed run without conclusion,
\* after fetches that showed the run still running.
C6_Witness ==
    /\ WatcherReturned
    /\ fetches >= 2
    /\ conclusion = NoneStr
    /\ final_conclusion = "unknown"

\* validate_conclusion has returned in ValidateSpec.
Validated == pc = "done" /\ validatorCalls = 1

\* C7: validate_conclusion(x, x, ...) returns 0 for every non-empty string x
\* and validate_conclusion(x, y, ...) returns 1 whenever x differs from y,
\* whether or not custom messages are supplied (exact string equality).
C7_ValidateIsExactEquality ==
    Validated =>
        /\ (final_conclusion = expected_conclusion /\ final_conclusion # "")
              => result = 0
        /\ (final_conclusion # expected_conclusion) => result = 1

\* Conclusions that differ only in case are a mismatch, with custom messages.
C7_Witness ==
    /\ Validated
    /\ final_conclusion = "Success" /\ expected_conclusion = "success"
    /\ success_message = "custom" /\ error_message = "custom"
    /\ result = 1

\* wait_on_action returned 2 and no locator call took any wall time; the
\* clock was 0 at the call, so `now` is the time elapsed.
TimedOutInstantApi == Returned /\ result = 2 /\ apiTime = 0 /\ timeout > 0

\* C8 as stated: when no run ever matches, 2 is returned after at least
\* timeout and at most timeout + poll_interval, for every positive timeout
\* and poll_interval.
C8_WithinOnePollInterval ==
    TimedOutInstantApi => (now >= timeout /\ now - timeout <= poll_interval)

\* C8, amended: when no run ever matches, 2 is returned after at least
\* timeout and less than timeout plus two poll intervals.
C8_WithinTwoPollIntervals ==
    TimedOutInstantApi => (now >= timeout /\ now - timeout < 2 * poll_interval)

\* A timeout that is no multiple of poll_interval: the return comes more
\* than one poll interval after the timeout.
C8_Witness ==
    /\ TimedOutInstantApi
    /\ locatorCalls >= 2
    /\ now - timeout > poll_interval

\* A run has been selected and handed to the watcher.
Watching == workflow_found /\ watcherCalls > 0

\* C9: when the first non-empty locator result holds several runs, the run
\* passed to the watcher is one with the greatest creation timestamp among
\* them.
C9_WatchesNewestMatch ==
    Watching =>
        \E i \in 1 .. Len(runs) :
            /\ runs[i].id = run_id
            /\ \A j \in 1 .. Len(runs) : runs[j].created_at <= runs[i].created_at

\* Two runs matched, the remote listed the older one last, and the newer
\* one is watched.
C9_Witness ==
    /\ Watching /\ pc = "fetched"
    /\ Len(runs) = 2
    /\ runs[1].created_at > runs[2].created_at
    /\ run_id = runs[1].id
    /\ fetchedIds = { run_id }

\* C10: within one invocation at most one run is selected and the choice is
\* fixed: after the first non-empty locator result the locator is not
\* invoked again, every watcher fetch uses the selected run's identifier,
\* and a newer matching run that appears while watching changes nothing.
C10_SelectionIsFixed ==
    /\ [](/\ watcherCalls <= 1
          /\ nonEmptyPolls <= 1
          /\ Watching => fetchedIds \subseteq { run_id })
    /\ [][/\ (nonEmptyPolls > 0) => (locatorCalls' = locatorCalls)
          /\ Watching => (run_id' = run_id /\ runs' = runs)]_vars

\* The invocation returned after validating the selected run although the
\* remote by then lists a newer run that matches too.
C10_Witness ==
    /\ Returned /\ Watching /\ validatorCalls = 1
    /\ fetchedIds = { run_id }
    /\ LET latest == get_matching_workflow_runs(workflows, remote, workflow_name,
                                                commit_sha, test_id, FALSE)
       IN  /\ latest # << >>
           /\ latest[1].id # run_id
           /\ \E i \in 1 .. Len(runs) :
                 runs[i].id = run_id /\ latest[1].created_at > runs[i].created_at

\* C11: an API error or a workflow that does not resolve during a locator
\* poll never reaches the orchestrator as an exception: the poll yields an
\* empty list, the orchestrator sleeps and polls again; if every poll up to
\* the deadline fails the invocation returns 2, and a failed poll followed
\* by a poll that finds a run still starts the watcher.
C11_LocatorErrorsAreAbsorbed ==
    /\ [][(failedPolls' # failedPolls) =>
            /\ runs' = << >>
            /\ pc' = "polled"
            /\ nonEmptyPolls' = nonEmptyPolls]_vars
    /\ []((pc = "polled" /\ runs = << >>) =>
            (pc # "raised" /\ ENABLED NoMatch /\ ~ENABLED Matched))
    /\ []((Returned /\ failedPolls = locatorCalls) => result = 2)
    /\ []((pc = "polled" /\ runs # << >> /\ failedPolls > 0) => ENABLED Matched)

\* The watcher runs on a match found by a poll that followed a failed one.
C11_Witness ==
    /\ workflow_found /\ pc = "watch"
    /\ failedPolls >= 1
    /\ locatorCalls = failedPolls + 1

\* C12: verbose does not affect control flow.  Two invocations that differ
\* only in verbose and get the same API answers and clock readings stay in
\* step exactly when every step the program takes with its verbose setting
\* is, from the same state and on the same answers, also the step it takes
\* with the opposite setting: same calls, same sleeps, same exit code.
C12_VerboseDoesNotSteer ==
    [][ProgramStep(verbose) => ProgramStep(~verbose)]_vars

\* The orchestrator's phase at a control point: 0 SEARCHING (before and
\* inside the while loop, no run matched yet), 1 WATCHING (a run is matched;
\* watch_workflow_run and validate_conclusion), 2 DONE (the invocation ended).
Phase(p) ==
    IF p \in { "start", "loop", "polled" } THEN 0
    ELSE IF p \in { "watch", "fetched", "validate" } THEN 1
    ELSE 2

\* C13: the phases only move forward, SEARCHING -> WATCHING -> DONE or
\* SEARCHING -> DONE; the watcher is invoked at most once, the validator at
\* most once and only after the watcher returned a conclusion; once 0, 1 or
\* 2 is the result there is no further locator poll, watcher call or fetch,
\* validator call or sleep.
C13_PhasesOnlyMoveForward ==
    /\ [][Phase(pc') >= Phase(pc)]_vars
    /\ [](watcherCalls <= 1 /\ validatorCalls <= 1)
    /\ [][validatorCalls' # validatorCalls =>
            (pc = "validate" /\ watcherCalls = 1 /\ watch_done(status)
             /\ final_conclusion = conclusion_or_unknown(conclusion))]_vars
    /\ [](Phase(pc) = 1 <=> (workflow_found /\ pc \notin { "done", "raised" }))
    /\ [](result # Unset <=> Returned)
    /\ [][(result # Unset) =>
            (/\ locatorCalls' = locatorCalls
             /\ watcherCalls' = watcherCalls
             /\ fetches' = fetches
             /\ validatorCalls' = validatorCalls
             /\ sleeps' = sleeps
             /\ now' = now
             /\ result' = result)]_vars

\* A full cycle: a search that needed several polls, then the watch, then
\* the validation.
C13_Witness ==
    /\ Returned /\ result \in { 0, 1 }
    /\ locatorCalls >= 2
    /\ watcherCalls = 1 /\ validatorCalls = 1

\* C14: the search deadline does not bound the watch.  Once a run is matched
\* 2 is never returned, however far the clock is past the deadline; while
\* the fetched status is not "completed" the only step is the sleep before
\* the next fetch (no return); and a return after a match always carries a
\* "completed" status and the code 0 or 1 that the conclusion decides.
C14_DeadlineDoesNotBoundWatching ==
    /\ [](Watching => result # 2)
    /\ []((Watching /\ pc \in { "watch", "fetched", "validate" }) =>
            (result = Unset /\ ~ENABLED GiveUp))
    /\ []((pc = "fetched" /\ ~watch_done(status)) =>
            (ENABLED WatchSleep /\ ~ENABLED WatchReturn /\ ~ENABLED Validate))
    /\ [][(pc = "fetched" /\ ~watch_done(status)) =>
            (pc' = "watch" /\ result' = Unset)]_vars
    /\ []((Returned /\ Watching) =>
            /\ watch_done(status)
            /\ result \in { 0, 1 }
            /\ result = 0 <=> conclusion_or_unknown(conclusion) = expected_conclusion)

\* The matched run completes only after the search deadline has passed, and
\* the invocation returns 0.
C14_Witness ==
    /\ Returned /\ Watching
    /\ fetches >= 2
    /\ now > end_time
    /\ result = 0

\* The invocation ended with an exception raised inside watch_workflow_run.
WatcherRaised == pc = "raised"

C16_FixedIntervalPolling ==
    /\ []((pc # "start") =>
            /\ start_time = poll_interval
            /\ end_time = start_time + timeout)
    /\ []((pc = "loop" /\ locatorCalls = 0) =>
            (sleeps = 1 /\ now = start_time /\ end_time - now = timeout))
    /\ [][(locatorCalls' # locatorCalls) =>
            (locatorCalls' = locatorCalls + 1 /\ sleeps = locatorCalls + 1)]_vars
    /\ [][(sleeps' # sleeps) =>
            (sleeps' = sleeps + 1 /\ now' = now + poll_interval)]_vars
    /\ []((pc \in { "loop", "polled" }) =>
            now = poll_interval * sleeps + apiTime)

\* The third locator call has been made, three sleeps after the call of
\* wait_on_action.
C16_Witness ==
    /\ pc = "polled"
    /\ locatorCalls = 3
    /\ sleeps = 3

\* Seconds since the start of the search, as the loop test sees them.
Elapsed == now - start_time

\* A run that the locator would return exists on the remote.
MatchingRunExists ==
    get_matching_workflow_runs(workflows, remote, workflow_name, commit_sha,
                               test_id, FALSE) # << >>

\* C17: the locator is called only while the elapsed search time is
\* strictly less than timeout; at the loop test with elapsed >= timeout
\* (equality included) the only step is the return of 2, so with
\* timeout <= 0 the locator is never called and 2 is returned even when a
\* matching run exists; a non-empty result is taken whatever the clock
\* shows when it comes back.
C17_PollsOnlyBeforeDeadline ==
    /\ [][(locatorCalls' # locatorCalls) => Elapsed < timeout]_vars
    /\ []((pc = "loop" /\ ~workflow_found /\ Elapsed >= timeout) =>
            (ENABLED GiveUp /\ ~ENABLED SearchPoll))
    /\ []((pc = "loop" /\ Elapsed < timeout) => ~ENABLED GiveUp)
    /\ [][(pc = "loop" /\ Elapsed >= timeout /\ pc' # pc) =>
            (pc' = "done" /\ result' = 2)]_vars
    /\ []((timeout <= 0) =>
            /\ locatorCalls = 0
            /\ Returned => result = 2)
    /\ []((pc = "polled" /\ runs # << >>) =>
            (ENABLED Matched /\ ~ENABLED NoMatch /\ ~ENABLED GiveUp))

\* A poll that started before the deadline came back with a run after it,
\* and the run is being watched.
C17_Witness ==
    /\ Watching /\ pc = "watch" /\ fetches = 0
    /\ now >= end_time
    /\ now - apiTime < end_time

\* With timeout <= 0 the invocation returned 2 without a poll although a
\* matching run existed.
C17_WitnessNoPoll ==
    /\ Returned /\ result = 2
    /\ timeout <= 0 /\ locatorCalls = 0
    /\ MatchingRunExists

\* C18: an error raised by a watcher fetch (or by the watcher's client or
\* repository setup) is not absorbed.  Every watcher call can fail; a
\* watcher call that does not deliver a status ends the invocation with the
\* exception: no result 0, 1 or 2, no conclusion, no validator call, and no
\* step after it.  Only the watcher ends an invocation this way: a failing
\* locator poll never does.
C18_WatcherErrorsPropagate ==
    /\ []((pc = "watch") => ENABLED WatchFetchError)
    /\ [][(pc = "watch" /\ pc' # pc /\ fetches' = fetches) =>
            WatcherRaised']_vars
    /\ [](WatcherRaised =>
            /\ result = Unset
            /\ validatorCalls = 0
            /\ final_conclusion = NoneStr
            /\ watcherCalls = 1)
    /\ [][WatcherRaised => FALSE]_vars
    /\ [][(WatcherRaised' /\ ~WatcherRaised) =>
            (pc = "watch" /\ failedPolls' = failedPolls)]_vars

\* A fetch raised after an earlier fetch had succeeded and after an earlier
\* locator failure had been absorbed.
C18_Witness ==
    /\ WatcherRaised
    /\ fetches >= 1
    /\ failedPolls >= 1

\* The text of a title or name, an absent one read as the empty string.
TextOf(x) == IF x = None THEN << >> ELSE x

\* Positions in the listing of the workflows that workflow_name designates:
\* by name, or by a path ending with "/" and the name.
DesignatedAt ==
    { i \in 1 .. Len(workflows) :
        \/ workflows[i].name = workflow_name
        \/ \E pre \in 0 .. Len(workflows[i].path) :
              workflows[i].path =
                  SubSeq(workflows[i].path, 1, pre) \o << "/" >> \o workflow_name }

FirstDesignated == CHOOSE i \in DesignatedAt : \A j \in DesignatedAt : i <= j

\* The run meets the criteria of the call: the SHA is commit_sha and, when a
\* non-empty token is given, the title or the name contains it.
MeetsCriteria(r) ==
    /\ r.head_sha = commit_sha
    /\ (test_id # None /\ Len(test_id) > 0) =>
          \E txt \in { TextOf(r.display_title), TextOf(r.name) } :
              \E i \in 1 .. Len(txt), j \in 1 .. Len(txt) :
                  SubSeq(txt, i, j) = test_id

\* How many times the run with this id occurs in the returned list.
Occurrences(id) == Cardinality({ j \in 1 .. Len(runs) : runs[j].id = id })

\* C19: when the workflow resolves and no API error occurs, every run of
\* the resolved workflow that has the commit SHA and (for a non-empty token)
\* carries the token in its display title or name is returned exactly once;
\* with no token or an empty token every run with the SHA is returned; an
\* absent title or name counts as the empty string.
C19_EveryMatchReturnedOnce ==
    (Located /\ failedPolls = 0) =>
        /\ DesignatedAt # { }
        /\ \A k \in 1 .. Len(remote) :
              (/\ remote[k].workflow_id = workflows[FirstDesignated].id
               /\ MeetsCriteria(remote[k]))
                  => (/\ Occurrences(remote[k].id) = 1
                      /\ \E j \in 1 .. Len(runs) : runs[j] = remote[k])
        /\ \A j \in 1 .. Len(runs) : Occurrences(runs[j].id) = 1

\* Two runs are returned for the token "t": one carries it in its name and
\* has an empty title, the other carries it in its title and has no name.
C19_Witness ==
    /\ Located /\ failedPolls = 0
    /\ test_id = << "t" >>
    /\ Len(runs) = 2
    /\ \E i \in 1 .. 2 : runs[i].display_title = << >>
    /\ \E i \in 1 .. 2 : runs[i].name = None

\* C20: the workflow used is the first one in the listing whose name equals
\* workflow_name or whose path ends with "/" and workflow_name; only its
\* runs are returned, runs of a later workflow that also matches are not;
\* when no workflow matches, the call takes its "not found" path and returns
\* the empty list.
C20_FirstMatchingWorkflowOnly ==
    Located =>
        /\ \A j \in 1 .. Len(runs) :
              /\ DesignatedAt # { }
              /\ runs[j].workflow_id = workflows[FirstDesignated].id
        /\ (DesignatedAt = { }) => (runs = << >> /\ failedPolls = 1)
        /\ (DesignatedAt # { }) =>
              /\ target_workflow(workflows, workflow_name) = workflows[FirstDesignated]
              /\ failedPolls = 0 =>
                    \A k \in 1 .. Len(remote) :
                        (/\ remote[k].workflow_id = workflows[FirstDesignated].id
                         /\ MeetsCriteria(remote[k]))
                            => \E j \in 1 .. Len(runs) : runs[j] = remote[k]

\* The listing starts with a workflow whose path ends with the name but
\* without the "/", then one matching by path, then one matching by name;
\* a run of the second is returned and a run of the third, which meets the
\* criteria too, is not.
C20_Witness ==
    /\ Located
    /\ workflows = << WfOther, WfByPath, WfByName >>
    /\ Len(runs) = 1 /\ runs[1].workflow_id = WfByPath.id
    /\ \E k \in 1 .. Len(remote) :
          remote[k].workflow_id = WfByName.id /\ MeetsCriteria(remote[k])

\* Sleeps made inside watch_workflow_run: the search made one sleep per
\* locator call (the initial one and one after every empty poll but the
\* matching one), every later sleep is the watcher's.
WatcherSleeps == sleeps - locatorCalls

\* C21: watch_workflow_run returns on the first fetch that shows
\* "completed" and does not sleep after it; one sleep of poll_interval lies
\* between consecutive fetches, so at the return the sleeps are the fetches
\* minus one (one fetch and no sleep when the run is completed at once).
C21_ReturnsOnFirstCompletedFetch ==
    /\ []((Watching /\ pc = "watch") => WatcherSleeps = fetches)
    /\ []((Watching /\ pc = "fetched") => WatcherSleeps = fetches - 1)
    /\ [](WatcherReturned =>
            /\ fetches >= 1
            /\ WatcherSleeps = fetches - 1
            /\ watch_done(status))
    /\ []((pc = "fetched" /\ watch_done(status)) =>
            (ENABLED WatchReturn /\ ~ENABLED WatchSleep /\ ~ENABLED WatchFetch))
    /\ [][(pc = "fetched" /\ watch_done(status)) =>
            (/\ pc' = "validate"
             /\ sleeps' = sleeps
             /\ now' = now
             /\ fetches' = fetches)]_vars
    /\ [][(fetches' # fetches /\ fetches >= 1) =>
            (fetches' = fetches + 1 /\ WatcherSleeps = fetches
             /\ ~watch_done(status))]_vars
    /\ [][(pc = "fetched" /\ sleeps' # sleeps) =>
            (sleeps' = sleeps + 1 /\ now' = now + poll_interval)]_vars

\* The run was completed at the first fetch: one fetch, no watcher sleep.
C21_Witness ==
    /\ WatcherReturned
    /\ fetches = 1
    /\ WatcherSleeps = 0

\* The run was completed at the second fetch: one sleep between the two.
C21_WitnessSecondFetch ==
    /\ WatcherReturned
    /\ fetches = 2
    /\ WatcherSleeps = 1

====
